---------------------------- MODULE Spec2Model ----------------------------
(* A model of run.py, the UnityDataMiner runner: it snapshots the          *)
(* libraries directory, runs the "unity-miner" container, lists the        *)
(* directory again, announces the new entries on a Discord webhook and     *)
(* re-renders index.html; a failed container run is reported on the error  *)
(* webhook.                                                                *)
(*                                                                         *)
(* A Python str is modelled as a sequence of one-character strings, so     *)
(* that split, splitext, slicing, int() and the regular expression of      *)
(* split_num are computed character by character.                          *)
EXTENDS Integers, Sequences, FiniteSets, TLC

(***************************************************************************)
(* Characters and strings                                                  *)
(***************************************************************************)

\* The characters the model uses, in ascending code point order.
Alphabet ==
    << "#", "-", ".", "/",
       "0", "1", "2", "3", "4", "5", "6", "7", "8", "9",
       "A", "B", "C", "D", "E", "F", "G", "H", "I", "J", "K", "L", "M",
       "N", "O", "P", "Q", "R", "S", "T", "U", "V", "W", "X", "Y", "Z",
       "a", "b", "c", "d", "e", "f", "g", "h", "i", "j", "k", "l", "m",
       "n", "o", "p", "q", "r", "s", "t", "u", "v", "w", "x", "y", "z" >>

\* The rank of a character: Python compares str values by code point.
Ord == [c \in {Alphabet[i] : i \in DOMAIN Alphabet} |->
          CHOOSE i \in DOMAIN Alphabet : Alphabet[i] = c]

Digits == {"0", "1", "2", "3", "4", "5", "6", "7", "8", "9"}

\* \d of the pattern.
IsDigit(c) == c \in Digits

\* [a-zA-Z] of the pattern.
IsLetter(c) ==
    \/ Ord[c] >= Ord["A"] /\ Ord[c] <= Ord["Z"]
    \/ Ord[c] >= Ord["a"] /\ Ord[c] <= Ord["z"]

DigitVal(c) == Ord[c] - Ord["0"]

\* a < b on str: the first differing character decides, a proper prefix is
\* smaller.
StrLess(a, b) ==
    \E k \in 1..(Len(b)) :
        /\ \A i \in 1..(k - 1) : i <= Len(a) /\ a[i] = b[i]
        /\ k - 1 <= Len(a)
        /\ \/ Len(a) = k - 1
           \/ Len(a) >= k /\ Ord[a[k]] < Ord[b[k]]

\* int(s) is defined (over this alphabet) for a non-empty run of digits.
IsIntStr(s) == Len(s) > 0 /\ \A i \in 1..Len(s) : IsDigit(s[i])

RECURSIVE ToInt(_)
\* int(s) for a run of digits, base 10.
ToInt(s) ==
    IF Len(s) = 0 THEN 0
    ELSE 10 * ToInt(SubSeq(s, 1, Len(s) - 1)) + DigitVal(s[Len(s)])

RECURSIVE NatStr(_)
NatStr(n) ==
    IF n < 10 THEN << Alphabet[Ord["0"] + n] >>
    ELSE NatStr(n \div 10) \o << Alphabet[Ord["0"] + (n % 10)] >>

\* str(n) of an int, as the f-string formats ex.returncode.
IntStr(n) == IF n < 0 THEN << "-" >> \o NatStr(0 - n) ELSE NatStr(n)

\* The index of the last c in s, 0 when there is none.
LastIndexOf(s, c) ==
    LET I == {i \in 1..Len(s) : s[i] = c}
    IN  IF I = {} THEN 0 ELSE CHOOSE i \in I : \A j \in I : j <= i

\* The index of the first c in s, 0 when there is none.
FirstIndexOf(s, c) ==
    LET I == {i \in 1..Len(s) : s[i] = c}
    IN  IF I = {} THEN 0 ELSE CHOOSE i \in I : \A j \in I : j >= i

RECURSIVE Split(_)
\* s.split("."): the segments between the dots, at least one.
Split(s) ==
    LET k == FirstIndexOf(s, ".")
    IN  IF k = 0 THEN << s >>
        ELSE << SubSeq(s, 1, k - 1) >> \o Split(SubSeq(s, k + 1, Len(s)))

\* p.basename(path): what follows the last "/".
Basename(path) == SubSeq(path, LastIndexOf(path, "/") + 1, Len(path))

\* p.splitext(name)[0]: the name up to its last dot, unless only dots
\* precede that dot (a leading dot starts no extension).
SplitextRoot(name) ==
    LET k == LastIndexOf(name, ".")
    IN  IF k > 1 /\ \E i \in 1..(k - 1) : name[i] # "."
        THEN SubSeq(name, 1, k - 1)
        ELSE name

\* v[:-3]: the string without its last three characters.
DropLast3(v) == SubSeq(v, 1, Len(v) - 3)

(***************************************************************************)
(* split_num                                                               *)
(***************************************************************************)

\* The length of the longest run of digits of s that starts at index from.
DigitRun(s, from) ==
    LET E == {e \in from..(Len(s) + 1) :
                 /\ \A i \in from..(e - 1) : IsDigit(s[i])
                 /\ (e <= Len(s) => ~ IsDigit(s[e]))}
    IN  (CHOOSE e \in E : TRUE) - from

\* A faulty variant of split_num: the whole string is read as the number and the
\* letter and the rest are lost.
split_num_no_groups(s) ==
    IF DigitRun(s, 1) = 0 THEN << 0, s, 0 >>
    ELSE << ToInt(SubSeq(s, 1, DigitRun(s, 1))), << >>, 0 >>

\* A faulty variant of split_num: a string the pattern does not match gets the key
\* (-1, s, 0), below every matched one.
split_num_unmatched_first(s) ==
    IF DigitRun(s, 1) = 0 THEN << -1, s, 0 >>
    ELSE << ToInt(SubSeq(s, 1, DigitRun(s, 1))),
            IF DigitRun(s, 1) + 1 <= Len(s) /\ IsLetter(s[DigitRun(s, 1) + 1])
            THEN << s[DigitRun(s, 1) + 1] >> ELSE << >>,
            0 >>

\* split_num(s): re.match of (?P<num>\d+)(?P<letter>[a-zA-Z])?(?P<rest>\d*)?
\* at the start of s; every quantifier is greedy and none has to give back.
split_num(s) ==
    LET n == DigitRun(s, 1)
        hasLetter == n + 1 <= Len(s) /\ IsLetter(s[n + 1])
        restFrom == IF hasLetter THEN n + 2 ELSE n + 1
        r == DigitRun(s, restFrom)
    IN  IF n = 0 THEN << 0, s, 0 >>
        ELSE << ToInt(SubSeq(s, 1, n)),
                IF hasLetter THEN << s[n + 1] >> ELSE << >>,
                IF r = 0 THEN 0 ELSE ToInt(SubSeq(s, restFrom, restFrom + r - 1)) >>

(***************************************************************************)
(* update_index: the display names and their order                         *)
(***************************************************************************)

\* The pairs of places of a sequence.
Pairs(seq) == (DOMAIN seq) \X (DOMAIN seq)

\* sorted(seq, key=...), where lt holds the pairs of places << i, j >> with
\* key(seq[i]) < key(seq[j]). The sort is stable: an element goes after
\* every element with a smaller key and after the earlier elements with an
\* equal key. (s and l hold the values of seq and lt, taken once.)
StableSortBy(seq, lt) ==
    CHOOSE r \in
        { LET n == Len(s)
              pos(i) ==
                  Cardinality({j \in 1..n : << j, i >> \in l})
                + Cardinality({j \in 1..i : << j, i >> \notin l /\ << i, j >> \notin l})
          IN  [k \in 1..n |-> s[CHOOSE i \in 1..n : pos(i) = k]]
          : s \in {seq}, l \in {lt} } : TRUE

\* x.split(".")[2], the qualifier of a display name.
Qualifier(x) == Split(x)[3]

\* The five sort keys of update_index, in the order of lines 70 to 74.
KeySuffix(x) == split_num(Qualifier(x))[3]
KeyLetter(x) == split_num(Qualifier(x))[2]
KeyNum(x) == split_num(Qualifier(x))[1]
KeyMinor(x) == ToInt(Split(x)[2])
KeyMajor(x) == ToInt(Split(x)[1])

\* The pairs of places of s whose keys ascend, for each of the five keys.
BySuffix(s) == {p \in Pairs(s) : KeySuffix(s[p[1]]) < KeySuffix(s[p[2]])}
ByLetter(s) == {p \in Pairs(s) : StrLess(KeyLetter(s[p[1]]), KeyLetter(s[p[2]]))}
ByNum(s) == {p \in Pairs(s) : KeyNum(s[p[1]]) < KeyNum(s[p[2]])}
ByMinor(s) == {p \in Pairs(s) : KeyMinor(s[p[1]]) < KeyMinor(s[p[2]])}
ByMajor(s) == {p \in Pairs(s) : KeyMajor(s[p[1]]) < KeyMajor(s[p[2]])}

\* A faulty variant of SortLibs: the passes run from the most significant key to the
\* least significant one.
SortLibsMajorFirst(libs) ==
    CHOOSE s5 \in
        { StableSortBy(s4, BySuffix(s4)) : s4 \in
        { StableSortBy(s3, ByLetter(s3)) : s3 \in
        { StableSortBy(s2, ByNum(s2)) : s2 \in
        { StableSortBy(s1, ByMinor(s1)) : s1 \in
        { StableSortBy(libs, ByMajor(libs)) } } } } } : TRUE

\* The five successive sorted() calls of update_index: each sorts the result
\* of the one before.
SortLibs(libs) ==
    CHOOSE s5 \in
        { StableSortBy(s4, ByMajor(s4)) : s4 \in
        { StableSortBy(s3, ByMinor(s3)) : s3 \in
        { StableSortBy(s2, ByNum(s2)) : s2 \in
        { StableSortBy(s1, ByLetter(s1)) : s1 \in
        { StableSortBy(libs, BySuffix(libs)) } } } } } : TRUE

\* p.splitext(p.basename(lib))[0] for lib in new_libs, in enumeration order.
DisplayNames(listing) ==
    [i \in DOMAIN listing |-> SplitextRoot(Basename(listing[i]))]

\* The exception update_index raises before it opens index.html, "none" when
\* it raises none: the template is looked up first, the first sort pass
\* indexes segment 2 of every name, the last two passes call int().
UpdateIndexError(listing, templatePresent) ==
    LET libs == DisplayNames(listing)
        L == {libs[i] : i \in DOMAIN libs}
    IN  IF ~ templatePresent THEN "TemplateNotFound"
        ELSE IF \E x \in L : Len(Split(x)) < 3 THEN "IndexError"
        ELSE IF \E x \in L : ~ IsIntStr(Split(x)[2]) THEN "ValueError"
        ELSE IF \E x \in L : ~ IsIntStr(Split(x)[1]) THEN "ValueError"
        ELSE "none"

\* The libs sequence update_index hands to the template.
IndexLibs(listing) == SortLibs(DisplayNames(listing))

\* The orders in which iterating over the set S can yield its elements.
Enumerations(S) ==
    {f \in [1..Cardinality(S) -> S] :
        \A i, j \in 1..Cardinality(S) : f[i] = f[j] => i = j}

(***************************************************************************)
(* The bounds of the model and the values the inputs are drawn from        *)
(***************************************************************************)

\* The most entries the libraries directory holds at a time.
MaxDirSize == 2

\* The file names the miner may leave in the libraries directory:
\* "1.2.0.zip", "1.2.00.zip" (another name with the same sort key),
\* "1.b.0.zip" (a minor that is no integer) and "a.md" (a name with a
\* single segment).
FileNames ==
    { << "1", ".", "2", ".", "0", ".", "z", "i", "p" >>,
      << "1", ".", "2", ".", "0", "0", ".", "z", "i", "p" >>,
      << "1", ".", "b", ".", "0", ".", "z", "i", "p" >>,
      << "a", ".", "m", "d" >> }

Dirs == {S \in SUBSET FileNames : Cardinality(S) <= MaxDirSize}

\* The exit statuses of the container run.
ExitCodes == {-1, 0, 1, 2}

\* config.get(key, None): None, or the str of the option.
None == [some |-> FALSE, val |-> << >>]
Str(s) == [some |-> TRUE, val |-> s]

WebhookA == << "h", "/", "a" >>
WebhookE == << "h", "/", "e" >>
ListingUrl == << "h", "/", "l" >>

\* config = {} (line 19): every get returns its default.
EmptyConfig ==
    [ announce_discord_webhook |-> None,
      error_discord_webhook |-> None,
      listing_url |-> << >> ]

\* What lines 14 to 19 can leave in config: the "runner" section of
\* runner.cfg, or {} when the file or the section is missing.
Configs ==
    [ announce_discord_webhook : {None, Str(<< >>), Str(WebhookA)},
      error_discord_webhook : {None, Str(<< >>), Str(WebhookE)},
      listing_url : {ListingUrl} ]
    \cup {EmptyConfig}

\* What requests.post can do: return a response (whatever its status; the
\* caller drops it) or raise for a connection that fails.
PostOutcomes == {"2xx", "4xx", "raises"}

(***************************************************************************)
(* The state                                                               *)
(***************************************************************************)

VARIABLES
    dir,            \* the entries of data/repo/libraries
    indexHtml,      \* data/repo/index.html: whether it exists, the libs it lists
    pc,             \* where the script is
    config,         \* the module-level config
    old_libs,       \* line 84
    returncode,     \* the exit status of the container run
    new_libs,       \* line 90
    diff,           \* line 92
    log,            \* the outside calls of this run, in order
    raised,         \* the exception that left the script uncaught, or "none"
    arg,            \* the argument of a function called on its own
    ret             \* its result

vars == << dir, indexHtml, pc, config, old_libs, returncode,
           new_libs, diff, log, raised, arg, ret >>

runVars == << config, old_libs, returncode, new_libs, diff, log, raised >>

NoIndex == [exists |-> FALSE, libs |-> << >>, from |-> {}]

Event(op, a) == [op |-> op, arg |-> a]

Count(op) == Cardinality({i \in DOMAIN log : log[i].op = op})

(***************************************************************************)
(* push_discord                                                            *)
(***************************************************************************)

HexVal(c) == IF IsDigit(c) THEN DigitVal(c) ELSE Ord[c] - Ord["a"] + 10

RECURSIVE HexInt(_)
\* int(color, 16)
HexInt(s) ==
    IF Len(s) = 0 THEN 0
    ELSE 16 * HexInt(SubSeq(s, 1, Len(s) - 1)) + HexVal(s[Len(s)])

\* A faulty variant of Truthy: only None is falsy.
TruthyNotNone(url) == url.some

\* bool(url): None and "" are falsy.
Truthy(url) == url.some /\ url.val # << >>

\* The outside calls of one push_discord(url, color, title, msg): the call
\* itself and, for a truthy url, the one requests.post, whose response is
\* dropped.
PushDiscord(url, color, title, msg) ==
    << Event("push_discord", [url |-> url, title |-> title, msg |-> msg]) >>
    \o IF Truthy(url)
       THEN << Event("post",
                     [url |-> url.val,
                      embed |-> [title |-> title, color |-> HexInt(color),
                                 description |-> msg]]) >>
       ELSE << >>

\* Whether that push_discord returns: it raises only out of requests.post.
PushReturns(url, outcome) == ~ Truthy(url) \/ outcome # "raises"

AnnounceColor == << "3", "0", "b", "5", "6", "3" >>
ErrorColor == << "b", "d", "3", "d", "3", "d" >>

(***************************************************************************)
(* The messages                                                            *)
(***************************************************************************)

\* sorted(S) of a set of str.
SortedStrs(S) ==
    CHOOSE f \in Enumerations(S) :
        \A i, j \in DOMAIN f : i < j => StrLess(f[i], f[j])

\* announce_template.substitute(...): one bullet "* v[:-3]" for each v of
\* sorted(diff), and the listing url.
AnnounceMessage(d, lib_url) ==
    [ template |-> "announce",
      libs |-> [i \in 1..Cardinality(d) |-> DropLast3(SortedStrs(d)[i])],
      lib_url |-> lib_url ]

\* The f-string of line 104: its literal text, and str(ex.returncode) in
\* its one replacement field.
ErrorMessage(code) ==
    [ text |-> "Unexpected error while running script: {}",
      field |-> IntStr(code) ]

(***************************************************************************)
(* The script                                                              *)
(***************************************************************************)

Init ==
    /\ dir \in Dirs
    /\ indexHtml = NoIndex
    /\ pc = "boot"
    /\ config = EmptyConfig
    /\ old_libs = {}
    /\ returncode = 0
    /\ new_libs = {}
    /\ diff = {}
    /\ log = << >>
    /\ raised = "none"
    /\ arg = << >>
    /\ ret = << >>

\* Lines 12 to 84: the configuration is read and the directory is listed.
Startup ==
    /\ pc = "boot"
    /\ config' \in Configs
    /\ old_libs' = dir
    /\ log' = Append(log, Event("listdir", dir))
    /\ pc' = "docker"
    /\ UNCHANGED << dir, indexHtml, returncode, new_libs,
                    diff, raised, arg, ret >>

\* A faulty variant of Caught: the handler is an "except Exception".
CaughtAny(exc) == TRUE

\* Line 101: the one exception type the try statement handles.
Caught(exc) == exc = "CalledProcessError"

\* Lines 86 to 88: the container runs, leaves the directory as it likes and
\* exits; check=True raises CalledProcessError for a status other than 0.
DockerRun ==
    /\ pc = "docker"
    /\ \E d \in Dirs, code \in ExitCodes :
          /\ dir' = d
          /\ returncode' = code
          /\ log' = Append(log, Event("docker", code))
          /\ IF code = 0 THEN pc' = "list" /\ raised' = raised
             ELSE IF Caught("CalledProcessError")
             THEN pc' = "except" /\ raised' = raised
             ELSE pc' = "exit" /\ raised' = "CalledProcessError"
    /\ UNCHANGED << indexHtml, config, old_libs, new_libs,
                    diff, arg, ret >>

\* A faulty variant of Diff: the entries that differ between the snapshots.
DiffSymmetric(before, after) == (after \ before) \cup (before \ after)

\* Line 92.
Diff(before, after) == after \ before

\* Lines 90 to 93.
ListAndDiff ==
    /\ pc = "list"
    /\ new_libs' = dir
    /\ diff' = Diff(old_libs, dir)
    /\ log' = Append(log, Event("listdir", dir))
    /\ pc' = IF Diff(old_libs, dir) # {} THEN "announce" ELSE "exit"
    /\ UNCHANGED << dir, indexHtml, config, old_libs,
                    returncode, raised, arg, ret >>

\* Lines 94 to 98.
Announce ==
    /\ pc = "announce"
    /\ \E outcome \in PostOutcomes :
          LET url == config.announce_discord_webhook
          IN  /\ log' = log \o PushDiscord(url, AnnounceColor, "New Unity Libs",
                                AnnounceMessage(diff, config.listing_url))
              /\ IF PushReturns(url, outcome)
                 THEN pc' = "index" /\ raised' = raised
                 ELSE IF Caught("RequestException")
                 THEN pc' = "except" /\ raised' = raised
                 ELSE pc' = "exit" /\ raised' = "RequestException"
    /\ UNCHANGED << dir, indexHtml, config, old_libs,
                    returncode, new_libs, diff, arg, ret >>

\* A faulty variant of IndexArgument: only the new entries are indexed.
IndexArgumentDiff == diff

\* Line 99: the set update_index is called with.
IndexArgument == new_libs

\* Line 99 and lines 62 to 77: the set is enumerated in some order and
\* index.jinja2 is there or not; an exception leaves index.html as it was.
UpdateIndex ==
    /\ pc = "index"
    /\ \E listing \in Enumerations(IndexArgument), templatePresent \in BOOLEAN :
          LET err == UpdateIndexError(listing, templatePresent)
          IN  IF err = "none"
              THEN /\ indexHtml' = [exists |-> TRUE, libs |-> IndexLibs(listing),
                                    from |-> IndexArgument]
                   /\ log' = log \o << Event("update_index", IndexArgument),
                                       Event("write", IndexLibs(listing)) >>
                   /\ raised' = raised
                   /\ pc' = "exit"
              ELSE /\ indexHtml' = indexHtml
                   /\ log' = Append(log, Event("update_index", IndexArgument))
                   /\ IF Caught(err)
                      THEN pc' = "except" /\ raised' = raised
                      ELSE pc' = "exit" /\ raised' = err
    /\ UNCHANGED << dir, config, old_libs, returncode,
                    new_libs, diff, arg, ret >>

\* A faulty variant of Suppressed: no status is suppressed.
SuppressedNever(code) == FALSE

\* Line 102: the status that is not reported.
Suppressed(code) == code = -1

\* Lines 101 to 104.
HandleError ==
    /\ pc = "except"
    /\ \E outcome \in PostOutcomes :
          LET url == config.error_discord_webhook
          IN  IF Suppressed(returncode)
              THEN log' = log /\ raised' = raised
              ELSE /\ log' = log \o PushDiscord(url, ErrorColor, "Error",
                                       ErrorMessage(returncode))
                   /\ raised' = IF PushReturns(url, outcome) THEN raised
                                ELSE "RequestException"
    /\ pc' = "exit"
    /\ UNCHANGED << dir, indexHtml, config, old_libs,
                    returncode, new_libs, diff, arg, ret >>

\* The script has ended; the scheduler starts it again, as a new process
\* on the same directory.
Restart ==
    /\ pc = "exit"
    /\ pc' = "boot"
    /\ config' = EmptyConfig
    /\ old_libs' = {}
    /\ returncode' = 0
    /\ new_libs' = {}
    /\ diff' = {}
    /\ log' = << >>
    /\ raised' = "none"
    /\ UNCHANGED << dir, indexHtml, arg, ret >>

Next ==
    \/ Startup
    \/ DockerRun
    \/ ListAndDiff
    \/ Announce
    \/ UpdateIndex
    \/ HandleError
    \/ Restart

Spec == Init /\ [][Next]_vars

(***************************************************************************)
(* split_num on its own: every qualifier up to a length                    *)
(***************************************************************************)

\* The longest qualifier split_num is applied to.
MaxQualLen == 4

QualChars == {"0", "1", "2", "a", "F", "#"}

Qualifiers == UNION {[1..n -> QualChars] : n \in 0..MaxQualLen}

\* The values of the script's variables while a function is called alone.
ScriptIdle ==
    /\ dir = {}
    /\ indexHtml = NoIndex
    /\ config = EmptyConfig
    /\ old_libs = {}
    /\ returncode = 0
    /\ new_libs = {}
    /\ diff = {}
    /\ log = << >>
    /\ raised = "none"

InitSplit ==
    /\ ScriptIdle
    /\ pc = "call"
    /\ arg \in Qualifiers
    /\ ret = << >>

CallSplitNum ==
    /\ pc = "call"
    /\ ret' = split_num(arg)
    /\ pc' = "returned"
    /\ UNCHANGED << dir, indexHtml, runVars, arg >>

NextSplit == CallSplitNum

SplitSpec == InitSplit /\ [][NextSplit]_vars

(***************************************************************************)
(* update_index on its own: every enumeration up to a length               *)
(***************************************************************************)

\* The most entries update_index is called with.
MaxListLen == 3

\* "2020.1.1.zip", "2021.3.5f1.zip", "2021.3.05f1.zip", "2021.3.10a2.zip",
\* "2021.3.0.zip", "2021.3.0b1.zip", "2021.3.X.zip", "2021.x.1.zip"
IndexFiles ==
    { << "2", "0", "2", "0", ".", "1", ".", "1", ".", "z", "i", "p" >>,
      << "2", "0", "2", "1", ".", "3", ".", "5", "f", "1", ".", "z", "i", "p" >>,
      << "2", "0", "2", "1", ".", "3", ".", "0", "5", "f", "1", ".", "z", "i", "p" >>,
      << "2", "0", "2", "1", ".", "3", ".", "1", "0", "a", "2", ".", "z", "i", "p" >>,
      << "2", "0", "2", "1", ".", "3", ".", "0", ".", "z", "i", "p" >>,
      << "2", "0", "2", "1", ".", "3", ".", "0", "b", "1", ".", "z", "i", "p" >>,
      << "2", "0", "2", "1", ".", "3", ".", "X", ".", "z", "i", "p" >>,
      << "2", "0", "2", "1", ".", "x", ".", "1", ".", "z", "i", "p" >> }

Listings == UNION {[1..n -> IndexFiles] : n \in 0..MaxListLen}

InitIndex ==
    /\ ScriptIdle
    /\ pc = "call"
    /\ arg \in Listings
    /\ ret = << >>

\* update_index(repo_path, new_libs) with the template in place: the libs
\* it renders, or the exception it raises.
CallUpdateIndex ==
    /\ pc = "call"
    /\ ret' = IF UpdateIndexError(arg, TRUE) = "none"
              THEN [error |-> "none", libs |-> IndexLibs(arg)]
              ELSE [error |-> UpdateIndexError(arg, TRUE), libs |-> << >>]
    /\ pc' = "returned"
    /\ UNCHANGED << dir, indexHtml, runVars, arg >>

NextIndex == CallUpdateIndex

IndexSpec == InitIndex /\ [][NextIndex]_vars

(***************************************************************************)
(* What the properties speak about                                         *)
(***************************************************************************)

AnnounceTitle == "New Unity Libs"
ErrorTitle == "Error"

\* The places of the log where push_discord was called with this title.
Pushes(title) ==
    {i \in DOMAIN log : log[i].op = "push_discord" /\ log[i].arg.title = title}

\* The container has run in this script run and has exited with this status.
Exited(code) ==
    \E i \in DOMAIN log : log[i].op = "docker" /\ log[i].arg = code

\* The container has run and has exited with a status other than 0.
Failed == \E i \in DOMAIN log : log[i].op = "docker" /\ log[i].arg # 0

\* An endpoint argument that is present: neither None nor "".
Present(url) == url.some /\ Len(url.val) > 0

RenderErrors == {"TemplateNotFound", "IndexError", "ValueError"}

\* How often each value occurs in a sequence.
Occurrences(s) ==
    [x \in {s[i] : i \in DOMAIN s} |-> Cardinality({i \in DOMAIN s : s[i] = x})]

\* A display name update_index cannot take a sort key of.
Unsortable(x) ==
    \/ Len(Split(x)) < 3
    \/ ~ IsIntStr(Split(x)[1])
    \/ ~ IsIntStr(Split(x)[2])

\* A qualifier \d+[a-zA-Z]?\d* from its first to its last character.
WellFormedQualifier(q) ==
    \E n \in 1..Len(q) :
        /\ \A i \in 1..n : IsDigit(q[i])
        /\ n < Len(q) => IsLetter(q[n + 1]) \/ IsDigit(q[n + 1])
        /\ \A i \in (n + 2)..Len(q) : IsDigit(q[i])

\* A qualifier the pattern does not match: it starts with no digit.
Malformed(q) == Len(q) = 0 \/ ~ IsDigit(q[1])

WellFormedName(x) == ~ Unsortable(x) /\ WellFormedQualifier(Qualifier(x))

\* The composite key (major, minor, qualifierNum, qualifierLetter,
\* qualifierSuffix) of a is smaller than that of b.
TupleLess(a, b) ==
    \/ KeyMajor(a) < KeyMajor(b)
    \/ /\ KeyMajor(a) = KeyMajor(b)
       /\ \/ KeyMinor(a) < KeyMinor(b)
          \/ /\ KeyMinor(a) = KeyMinor(b)
             /\ \/ KeyNum(a) < KeyNum(b)
                \/ /\ KeyNum(a) = KeyNum(b)
                   /\ \/ StrLess(KeyLetter(a), KeyLetter(b))
                      \/ /\ KeyLetter(a) = KeyLetter(b)
                         /\ KeySuffix(a) < KeySuffix(b)

(***************************************************************************)
(* C1                                                                      *)
(***************************************************************************)

\* C1: when the container has exited with status 0 and the script has ended,
\* a non-empty diff comes with exactly one announce notification and exactly
\* one index re-render, an empty diff with none of either, and there is no
\* error notification.
C1_AnnounceAndRenderOnce ==
    (pc = "exit" /\ Exited(0)) =>
        /\ diff # {} => Cardinality(Pushes(AnnounceTitle)) = 1
                        /\ Count("update_index") = 1
        /\ diff = {} => Cardinality(Pushes(AnnounceTitle)) = 0
                        /\ Count("update_index") = 0
        /\ Pushes(ErrorTitle) = {}

(***************************************************************************)
(* C2                                                                      *)
(***************************************************************************)

\* C2 (state part): when the container has exited with a status other than
\* 0 and the script has ended, status -1 comes with no notification and any
\* other status with exactly one error notification that carries the status
\* and no announce notification; the directory was listed once only, the
\* index was not rendered, the container ran once and CalledProcessError
\* did not leave the script.
C2_FailedRunState ==
    (pc = "exit" /\ Failed) =>
        /\ returncode = -1 => Count("push_discord") = 0 /\ Count("post") = 0
        /\ returncode # -1 =>
              /\ Count("push_discord") = 1
              /\ \E i \in Pushes(ErrorTitle) :
                    /\ log[i].arg.msg.field = IntStr(returncode)
                    /\ log[i].arg.url = config.error_discord_webhook
              /\ Pushes(AnnounceTitle) = {}
        /\ Count("listdir") = 1
        /\ Count("update_index") = 0
        /\ Count("write") = 0
        /\ Count("docker") = 1
        /\ raised # "CalledProcessError"

\* C2 (step part): no step of a run whose container exited with a status
\* other than 0 changes index.html.
C2_FailedRunStep ==
    (Failed \/ (pc = "docker" /\ returncode' # 0)) => indexHtml' = indexHtml

\* C2: a run whose container exits with a status other than 0 issues no
\* notification for status -1 and exactly one error notification carrying
\* the status otherwise, never an announce notification; it does not list
\* the directory again, leaves index.html unchanged, runs the container
\* once and does not re-raise the failure.
C2_FailedRun == [] C2_FailedRunState /\ [][C2_FailedRunStep]_vars

\* C2 witness: a run that ended after status 2 was reported to the error
\* webhook.
C2_Witness ==
    /\ pc = "exit"
    /\ Exited(2)
    /\ \E i \in Pushes(ErrorTitle) : log[i].arg.msg.field = << "2" >>
    /\ Count("post") = 1
    /\ indexHtml.exists

(***************************************************************************)
(* C4                                                                      *)
(***************************************************************************)

\* The directory has been listed a second time and diff has been computed.
Listed == Count("listdir") = 2

\* C4: once computed, diff holds exactly the entries of the after snapshot
\* that are absent from the before snapshot: no deleted entry, no entry of
\* both snapshots, and nothing when the snapshots are equal.
C4_DiffIsAfterMinusBefore ==
    Listed =>
        /\ \A x \in FileNames : x \in diff <=> (x \in new_libs /\ x \notin old_libs)
        /\ \A x \in old_libs : x \notin new_libs => x \notin diff
        /\ \A x \in old_libs : x \in new_libs => x \notin diff
        /\ new_libs = old_libs => diff = {}

\* C4 witness: a run that deleted one entry, kept one and added one.
C4_Witness ==
    /\ Listed
    /\ old_libs \ new_libs # {}
    /\ old_libs \cap new_libs # {}
    /\ diff # {}

(***************************************************************************)
(* C8                                                                      *)
(***************************************************************************)

\* C8: a push_discord call with an absent endpoint (None or "") is followed
\* by no POST; one with a present endpoint is followed by exactly one POST,
\* to that endpoint and with the call's title and message, and by no second
\* one, whether the POST returned or raised; there is no POST without a
\* call, and none at all in a run without webhooks.
C8_PostOnlyWithEndpoint ==
    /\ \A i \in DOMAIN log :
          log[i].op = "push_discord" =>
              IF Present(log[i].arg.url)
              THEN /\ i + 1 <= Len(log)
                   /\ log[i + 1].op = "post"
                   /\ log[i + 1].arg.url = log[i].arg.url.val
                   /\ log[i + 1].arg.embed.title = log[i].arg.title
                   /\ log[i + 1].arg.embed.description = log[i].arg.msg
                   /\ i + 2 <= Len(log) => log[i + 2].op # "post"
              ELSE i + 1 <= Len(log) => log[i + 1].op # "post"
    /\ \A i \in DOMAIN log :
          log[i].op = "post" => i > 1 /\ log[i - 1].op = "push_discord"
    /\ (pc # "boot" /\ ~ Present(config.announce_discord_webhook)
                    /\ ~ Present(config.error_discord_webhook))
          => Count("post") = 0

\* C8 witness: a run that announced with the webhook set to "" and went on
\* to write the index without a POST.
C8_Witness ==
    /\ pc = "exit"
    /\ config.announce_discord_webhook = Str(<< >>)
    /\ Cardinality(Pushes(AnnounceTitle)) = 1
    /\ Count("post") = 0
    /\ Count("write") = 1

(***************************************************************************)
(* C9                                                                      *)
(***************************************************************************)

\* C9 (state part): update_index is called, and index.html written, only
\* after the announce notification; a template that is missing or an entry
\* whose display name has fewer than three segments or a major or minor that
\* is no integer makes update_index raise; the exception leaves the script,
\* with no error notification, no write of index.html and the announce
\* notification (and its POST, for a present endpoint) in the log.
C9_RenderFailureState ==
    /\ \A i \in DOMAIN log :
          log[i].op \in {"update_index", "write"} =>
              \E j \in Pushes(AnnounceTitle) : j < i
    /\ (pc = "exit" /\ Count("update_index") = 1
          /\ \E v \in new_libs : Unsortable(SplitextRoot(v)))
          => raised \in RenderErrors
    /\ raised \in RenderErrors =>
          /\ pc = "exit"
          /\ Count("update_index") = 1
          /\ Pushes(ErrorTitle) = {}
          /\ Count("write") = 0
          /\ Cardinality(Pushes(AnnounceTitle)) = 1
          /\ Present(config.announce_discord_webhook) => Count("post") = 1

\* C9 (step part): the step in which update_index raises leaves index.html
\* as it was.
C9_RenderFailureStep ==
    (raised = "none" /\ raised' \in RenderErrors) =>
        pc = "index" /\ indexHtml' = indexHtml

\* C9: in a successful run with a non-empty diff the announce notification
\* goes out before the index is rendered, and a rendering failure leaves the
\* script uncaught: no error notification, index.html not overwritten, the
\* announce notification stands.
C9_RenderFailure == [] C9_RenderFailureState /\ [][C9_RenderFailureStep]_vars

\* C9 witness: an index written by an earlier run survives a run that
\* announced, posted and then failed on a name with a single segment.
C9_Witness ==
    /\ pc = "exit"
    /\ raised = "IndexError"
    /\ indexHtml.exists
    /\ Count("post") = 1
    /\ Cardinality(Pushes(AnnounceTitle)) = 1

(***************************************************************************)
(* C10                                                                     *)
(***************************************************************************)

\* The display names of the entries of a set, each as often as it occurs.
NamesOf(S) == Occurrences(DisplayNames(SortedStrs(S)))

\* C10 (state part): what a run writes to index.html are the display names
\* of all entries of the after snapshot, which is the directory as it is;
\* the announce message has one bullet for each entry of diff, the entry
\* without its last three characters; a run with an empty diff does not call
\* update_index.
C10_IndexListsAllState ==
    /\ \A i \in DOMAIN log :
          log[i].op = "write" =>
              /\ Occurrences(log[i].arg) = NamesOf(new_libs)
              /\ new_libs = dir
              /\ indexHtml.libs = log[i].arg
    /\ \A i \in Pushes(AnnounceTitle) :
          /\ Len(log[i].arg.msg.libs) = Cardinality(diff)
          /\ {log[i].arg.msg.libs[k] : k \in DOMAIN log[i].arg.msg.libs}
                = {DropLast3(v) : v \in new_libs \ old_libs}
    /\ (pc = "exit" /\ diff = {}) => Count("update_index") = 0

\* C10 (step part): index.html changes only in the update_index step of a
\* run with a non-empty diff, and then lists the display names of all
\* entries of the directory.
C10_IndexListsAllStep ==
    indexHtml' # indexHtml =>
        /\ pc = "index"
        /\ diff # {}
        /\ Occurrences(indexHtml'.libs) = NamesOf(dir')

\* C10: a re-rendered index lists the display names of all entries of the
\* after snapshot, the announce message those of diff only; the index is a
\* function of the directory's entries, and a run with an empty diff leaves
\* it unchanged.
C10_IndexListsAll == [] C10_IndexListsAllState /\ [][C10_IndexListsAllStep]_vars

\* C10 witness: a run that added one entry to a directory that held one
\* wrote both names to the index and announced one.
C10_Witness ==
    /\ pc = "exit"
    /\ Count("write") = 1
    /\ Cardinality(old_libs) = 1
    /\ Cardinality(new_libs) = 2
    /\ Cardinality(diff) = 1
    /\ Len(indexHtml.libs) = 2
    /\ \E i \in Pushes(AnnounceTitle) : Len(log[i].arg.msg.libs) = 1

(***************************************************************************)
(* C6                                                                      *)
(***************************************************************************)

\* C6: a call of update_index with the set the index was last rendered from
\* writes the libs sequence that is there already.
C6_SameSetSameOrder ==
    [][(pc = "index" /\ Count("write")' = 1 /\ indexHtml.exists
          /\ indexHtml'.from = indexHtml.from)
        => indexHtml'.libs = indexHtml.libs]_vars

(***************************************************************************)
(* C5                                                                      *)
(***************************************************************************)

\* The number a run of decimal digits writes.
Decimal(s) ==
    LET digit(c) == (CHOOSE k \in 1..10 :
                        << "0", "1", "2", "3", "4", "5", "6", "7", "8", "9" >>[k] = c) - 1
        v[i \in 0..Len(s)] == IF i = 0 THEN 0 ELSE 10 * v[i - 1] + digit(s[i])
    IN  v[Len(s)]

AllDigits(s, from, to) == \A i \in from..to : IsDigit(s[i])

\* C5: split_num returns (n, L, m) for a qualifier <n><L><m>, (n, L, 0) for
\* <n><L>, (n, "", 0) for <n>, and (0, s, 0) for a string s that starts with
\* no digit.
C5_SplitNumContract ==
    pc = "returned" =>
        /\ \A n \in 1..Len(arg) :
              (/\ AllDigits(arg, 1, n)
               /\ n + 2 <= Len(arg)
               /\ IsLetter(arg[n + 1])
               /\ AllDigits(arg, n + 2, Len(arg)))
              => ret = << Decimal(SubSeq(arg, 1, n)), << arg[n + 1] >>,
                          Decimal(SubSeq(arg, n + 2, Len(arg))) >>
        /\ \A n \in 1..Len(arg) :
              (AllDigits(arg, 1, n) /\ n + 1 = Len(arg) /\ IsLetter(arg[n + 1]))
              => ret = << Decimal(SubSeq(arg, 1, n)), << arg[n + 1] >>, 0 >>
        /\ (Len(arg) > 0 /\ AllDigits(arg, 1, Len(arg)))
              => ret = << Decimal(arg), << >>, 0 >>
        /\ Malformed(arg) => ret = << 0, arg, 0 >>

\* C5 witness: split_num("10a2") has returned (10, "a", 2).
C5_Witness ==
    /\ pc = "returned"
    /\ arg = << "1", "0", "a", "2" >>
    /\ ret = << 10, << "a" >>, 2 >>

(***************************************************************************)
(* C3                                                                      *)
(***************************************************************************)

\* C3: for a listing of well-formed names, the five sorts of update_index
\* yield what one stable sort by the composite key (major, minor,
\* qualifierNum, qualifierLetter, qualifierSuffix) yields, and the result
\* ascends in that key.
C3_FivePassesSortByTuple ==
    (pc = "returned" /\ \A i \in DOMAIN arg : WellFormedName(DisplayNames(arg)[i]))
    => /\ ret.error = "none"
       /\ ret.libs = StableSortBy(DisplayNames(arg),
                       {p \in Pairs(arg) :
                           TupleLess(DisplayNames(arg)[p[1]], DisplayNames(arg)[p[2]])})
       /\ \A i, j \in DOMAIN ret.libs :
             i < j => ~ TupleLess(ret.libs[j], ret.libs[i])

\* C3 witness: ["2021.3.5f1", "2021.3.10a2", "2020.1.1"] has come out as
\* ["2020.1.1", "2021.3.5f1", "2021.3.10a2"].
C3_Witness ==
    /\ pc = "returned"
    /\ DisplayNames(arg) =
          << << "2", "0", "2", "1", ".", "3", ".", "5", "f", "1" >>,
             << "2", "0", "2", "1", ".", "3", ".", "1", "0", "a", "2" >>,
             << "2", "0", "2", "0", ".", "1", ".", "1" >> >>
    /\ ret.libs =
          << << "2", "0", "2", "0", ".", "1", ".", "1" >>,
             << "2", "0", "2", "1", ".", "3", ".", "5", "f", "1" >>,
             << "2", "0", "2", "1", ".", "3", ".", "1", "0", "a", "2" >> >>

(***************************************************************************)
(* C7                                                                      *)
(***************************************************************************)

SameMajorMinor(a, b) == KeyMajor(a) = KeyMajor(b) /\ KeyMinor(a) = KeyMinor(b)

\* A well-formed qualifier whose numeric prefix is 0.
PrefixZero(q) == WellFormedQualifier(q) /\ Decimal(SubSeq(q, 1, DigitRun(q, 1))) = 0

\* The letter of a well-formed qualifier, "" when it has none.
LetterOf(q) ==
    LET I == {i \in DOMAIN q : IsLetter(q[i])}
    IN  IF I = {} THEN << >> ELSE << q[CHOOSE i \in I : TRUE] >>

\* C7 as the specification states it: among names of equal major and minor,
\* one with a malformed qualifier comes before every one with a well-formed
\* qualifier of numeric prefix 0.
C7_MalformedBeforePrefixZero ==
    (pc = "returned" /\ ret.error = "none") =>
        \A i, j \in DOMAIN ret.libs :
            (/\ SameMajorMinor(ret.libs[i], ret.libs[j])
             /\ Malformed(Qualifier(ret.libs[i]))
             /\ PrefixZero(Qualifier(ret.libs[j])))
            => i < j

\* C7 as amended: among names of equal major and minor, a name with a
\* malformed qualifier q comes after every name with a well-formed qualifier
\* of numeric prefix 0 whose letter field is smaller than q as a str (every
\* one without a letter, when q is not empty) and before every one whose
\* letter field is greater than q; and update_index raises for no listing
\* whose names have three segments and an integer major and minor, whatever
\* the qualifiers.
C7_MalformedByLetterField ==
    pc = "returned" =>
        /\ (\A k \in DOMAIN arg : ~ Unsortable(DisplayNames(arg)[k]))
              => ret.error = "none"
        /\ ret.error = "none" =>
              \A i, j \in DOMAIN ret.libs :
                  (/\ SameMajorMinor(ret.libs[i], ret.libs[j])
                   /\ Malformed(Qualifier(ret.libs[i]))
                   /\ PrefixZero(Qualifier(ret.libs[j])))
                  => /\ StrLess(LetterOf(Qualifier(ret.libs[j])), Qualifier(ret.libs[i]))
                           => j < i
                     /\ StrLess(Qualifier(ret.libs[i]), LetterOf(Qualifier(ret.libs[j])))
                           => i < j

\* C7 witness: "2021.3.X" has come out between "2021.3.0" and "2021.3.0b1".
C7_Witness ==
    /\ pc = "returned"
    /\ ret.error = "none"
    /\ ret.libs =
          << << "2", "0", "2", "1", ".", "3", ".", "0" >>,
             << "2", "0", "2", "1", ".", "3", ".", "X" >>,
             << "2", "0", "2", "1", ".", "3", ".", "0", "b", "1" >> >>

=============================================================================
